---- MODULE Spec2Model ----
(***************************************************************************)
(* A model of the counting bloom filter of neon-bloom-filter-3d:           *)
(*   - bloomLogic (getHashIndices): FNV-1a double hashing, computed as the *)
(*     JavaScript engine computes it (int32 bit operations, Math.imul,     *)
(*     IEEE-754 double arithmetic for h1 + i * h2, ToUint32 for >>> 0);    *)
(*   - App.tsx: the React state of the App component and its handlers.     *)
(*                                                                         *)
(* Numbers that do not fit the model checker's 32-bit integers are held as *)
(* little-endian sequences of bytes (base 256 digits).                     *)
(***************************************************************************)
EXTENDS Integers, Sequences, FiniteSets, TLC

(***************************************************************************)
(* Byte arithmetic                                                         *)
(***************************************************************************)

\* The exclusive or of the low n bits of a and b.
RECURSIVE XorN(_, _, _)
XorN(a, b, n) ==
    IF n = 0 THEN 0
    ELSE ((a + b) % 2) + 2 * XorN(a \div 2, b \div 2, n - 1)

\* The len low bytes of the natural number n, least significant first.
RECURSIVE ToBytes(_, _)
ToBytes(n, len) ==
    IF len = 0 THEN <<>> ELSE <<n % 256>> \o ToBytes(n \div 256, len - 1)

\* Byte j of a byte sequence, 0 beyond its end.
ByteAt(a, j) == IF j \in 1..Len(a) THEN a[j] ELSE 0

\* Carry propagation over a sequence of column sums.
RECURSIVE Propagate(_, _)
Propagate(cols, carry) ==
    IF cols = <<>> THEN <<>>
    ELSE LET t == Head(cols) + carry
         IN  <<t % 256>> \o Propagate(Tail(cols), t \div 256)

\* The column sums a[j] + b[j] for j in from..n.
RECURSIVE AddColumns(_, _, _, _)
AddColumns(a, b, from, n) ==
    IF from > n THEN <<>>
    ELSE <<ByteAt(a, from) + ByteAt(b, from)>> \o AddColumns(a, b, from + 1, n)

\* a + b, as n bytes.
AddBytes(a, b, n) == Propagate(AddColumns(a, b, 1, n), 0)

\* The sum over i in 1..upto of a[i] * b[k - i + 1].
RECURSIVE ColumnSum(_, _, _, _)
ColumnSum(a, b, k, upto) ==
    IF upto = 0 THEN 0
    ELSE ByteAt(a, upto) * ByteAt(b, k - upto + 1) + ColumnSum(a, b, k, upto - 1)

\* The column sums of the product a * b for columns from..n.
RECURSIVE MulColumns(_, _, _, _)
MulColumns(a, b, from, n) ==
    IF from > n THEN <<>>
    ELSE <<ColumnSum(a, b, from, Len(a))>> \o MulColumns(a, b, from + 1, n)

\* The n low bytes of a * b.
MulBytes(a, b, n) == Propagate(MulColumns(a, b, 1, n), 0)

\* The number of significant bits of a byte.
RECURSIVE BitsOf(_)
BitsOf(b) == IF b = 0 THEN 0 ELSE 1 + BitsOf(b \div 2)

\* The number of significant bits of a byte sequence.
RECURSIVE BitLen(_)
BitLen(a) ==
    IF a = <<>> THEN 0
    ELSE IF a[Len(a)] = 0 THEN BitLen(SubSeq(a, 1, Len(a) - 1))
    ELSE 8 * (Len(a) - 1) + BitsOf(a[Len(a)])

\* The value of a byte sequence modulo m (m >= 1).
RECURSIVE ModBytes(_, _)
ModBytes(a, m) ==
    IF a = <<>> THEN 0
    ELSE (a[1] + 256 * ModBytes(Tail(a), m)) % m

(***************************************************************************)
(* JavaScript number semantics                                             *)
(***************************************************************************)

\* The integer held in a byte sequence, rounded to the nearest IEEE-754
\* double (53 significant bits, ties to even): the value of every arithmetic
\* result on JavaScript numbers. Defined for values below 2^61.
RoundToDouble(a) ==
    LET len == BitLen(a)
    IN  IF len <= 53 THEN a
        ELSE LET s       == len - 53
                 unit    == 2 ^ s
                 low     == a[1] % unit
                 qOdd    == IF s = 8 THEN a[2] % 2 = 1
                            ELSE (a[1] \div unit) % 2 = 1
                 roundUp == low > unit \div 2 \/ (low = unit \div 2 /\ qOdd)
                 trunc   == [a EXCEPT ![1] = a[1] - low]
             IN  IF roundUp THEN AddBytes(trunc, ToBytes(unit, 2), Len(a))
                 ELSE trunc

\* x >>> 0 (ToUint32) of an integer-valued double: its value modulo 2^32.
ToUint32(a) == SubSeq(a, 1, 4)

\* x ^ y on two int32 bit patterns.
Xor32(x, y) ==
    <<XorN(x[1], y[1], 8), XorN(x[2], y[2], 8), XorN(x[3], y[3], 8), XorN(x[4], y[4], 8)>>

\* Math.imul(x, y): the low 32 bits of the product.
Imul(x, y) == MulBytes(x, y, 4)

\* NaN, the result of x % 0. It is held as -1, which is no array index, so
\* that it can be compared with the integers.
NaN == -1

\* x % m on a non-negative integer-valued double x.
JsMod(x, m) == IF m = 0 THEN NaN ELSE ModBytes(x, m)

(***************************************************************************)
(* bloomLogic: getHashIndices                                              *)
(***************************************************************************)

\* Strings are sequences of UTF-16 code units.
\* 2166136261 = 0x811C9DC5 and the two seeds, as int32 bit patterns.
FNV_OFFSET_BASIS == <<197, 157, 28, 129>>
SEED_H1 == <<197, 157, 28, 129>>
SEED_H2 == <<185, 121, 55, 158>>
FNV_PRIME == 16777619

\* The loop of fnv1a: hash ^= str.charCodeAt(i); hash = Math.imul(hash, prime).
RECURSIVE fnv1aLoop(_, _)
fnv1aLoop(str, hash) ==
    IF str = <<>> THEN hash
    ELSE fnv1aLoop(Tail(str),
                   Imul(Xor32(hash, ToBytes(Head(str), 4)), ToBytes(FNV_PRIME, 4)))

fnv1a(str, seed) == ToUint32(fnv1aLoop(str, Xor32(FNV_OFFSET_BASIS, seed)))

\* A variant of loopBody without the >>> 0: (h1 + i * h2) % size.
loopBodyUnwrapped(h1, h2, size, i) ==
    LET product == RoundToDouble(MulBytes(ToBytes(i, 4), h2, 8))
        sum     == RoundToDouble(AddBytes(h1, product, 8))
    IN  JsMod(sum, size)

\* The body of the loop of getHashIndices at i: the value pushed onto
\* indices. i * h2 and h1 + (i * h2) are JavaScript number operations, whose
\* results are doubles.
loopBody(h1, h2, size, i) ==
    LET product      == RoundToDouble(MulBytes(ToBytes(i, 4), h2, 8))
        sum          == RoundToDouble(AddBytes(h1, product, 8))
        combinedHash == ToUint32(sum)
    IN  JsMod(combinedHash, size)

\* A variant of forLoop that runs while i <= k.
RECURSIVE forLoopInclusive(_, _, _, _, _)
forLoopInclusive(h1, h2, size, k, i) ==
    IF i <= k
    THEN <<loopBody(h1, h2, size, i)>> \o forLoopInclusive(h1, h2, size, k, i + 1)
    ELSE <<>>

\* for (let i = from; i < k; i++) indices.push(...)
RECURSIVE forLoop(_, _, _, _, _)
forLoop(h1, h2, size, k, i) ==
    IF i < k THEN <<loopBody(h1, h2, size, i)>> \o forLoop(h1, h2, size, k, i + 1)
    ELSE <<>>

computeHashIndices(input, size, k) ==
    LET h1 == fnv1a(input, SEED_H1)
        h2 == fnv1a(input, SEED_H2)
    IN  forLoop(h1, h2, size, k, 0)

\* Element i (from 0) of getHashIndices(input, size, k), for any k > i.
indexAt(input, size, i) ==
    loopBody(fnv1a(input, SEED_H1), fnv1a(input, SEED_H2), size, i)

(***************************************************************************)
(* App.tsx: constants, controls and bounds of the model                    *)
(***************************************************************************)

DEFAULT_SIZE == 20
DEFAULT_HASHES == 3

\* The range inputs of the configuration panel: min, max, step.
SIZE_MIN == 10
SIZE_MAX == 200
SIZE_STEP == 10
HASH_MIN == 1
HASH_MAX == 10

\* Bounds of the model: the sizes offered are SIZE_MIN plus at most
\* MaxSizeSteps steps, the hash counts at most MaxHashes, and Insert is
\* offered while items holds fewer than MaxItems entries.
MaxSizeSteps == 1
MaxHashes == 3
MaxItems == 2

\* A variant of Sizes whose range input starts at 0.
SizesFromZero ==
    {n \in 0..SIZE_MAX :
        n % SIZE_STEP = 0 /\ n <= SIZE_MIN + SIZE_STEP * MaxSizeSteps}

Sizes ==
    {n \in SIZE_MIN..SIZE_MAX :
        (n - SIZE_MIN) % SIZE_STEP = 0 /\ n <= SIZE_MIN + SIZE_STEP * MaxSizeSteps}

HashCounts == {k \in HASH_MIN..HASH_MAX : k <= MaxHashes}

\* What is typed into the text box: "", " ", "a", " a " and "ba". At size 10
\* "a" and "ba" share their first index, and "ba" has one index twice.
Inputs == {<<>>, <<32>>, <<97>>, <<32, 97, 32>>, <<98, 97>>}

\* The code units String.prototype.trim removes (WhiteSpace and LineTerminator).
WhiteSpace ==
    {9, 10, 11, 12, 13, 32, 160, 5760, 8232, 8233, 8239, 8287, 12288, 65279}
        \cup (8192..8202)

RECURSIVE trimStart(_)
trimStart(str) ==
    IF str # <<>> /\ Head(str) \in WhiteSpace THEN trimStart(Tail(str)) ELSE str

RECURSIVE trimEnd(_)
trimEnd(str) ==
    IF str # <<>> /\ str[Len(str)] \in WhiteSpace
    THEN trimEnd(SubSeq(str, 1, Len(str) - 1))
    ELSE str

trim(str) == trimEnd(trimStart(str))

\* The words the handlers can operate on.
Words == {trim(str) : str \in Inputs} \ {<<>>}

\* getHashIndices is pure: its results for the words and configurations of
\* the App are computed once.
HashCache ==
    [w \in Words |-> [m \in Sizes |-> [k \in HashCounts |->
        computeHashIndices(w, m, k)]]]

getHashIndices(input, size, k) ==
    IF input \in Words /\ size \in Sizes /\ k \in HashCounts
    THEN HashCache[input][size][k]
    ELSE computeHashIndices(input, size, k)

(***************************************************************************)
(* App.tsx: state                                                          *)
(***************************************************************************)

VARIABLES
    size,           \* useState(DEFAULT_SIZE)
    hashCount,      \* useState(DEFAULT_HASHES)
    bitArray,       \* useState(Array(DEFAULT_SIZE).fill(0)): index -> counter
    items,          \* useState([]): the inserted words, in order
    inputValue,     \* useState(''): the text box
    lastOperation,  \* useState(null): the OperationResult last recorded
    effectPending,  \* the effect on [size, hashCount] is scheduled, not yet run
    alertShown,     \* the alerts raised by the latest handler call
    net,            \* history: word -> inserts minus successful deletes
                    \*          since the last reset
    beforeInsert,   \* history: bitArray and items as the latest Insert found
                    \*          them, while that Insert and then a Delete of
                    \*          its word are all that was recorded since
    call            \* the latest call of bloomLogic made from outside the App

appVars ==
    <<size, hashCount, bitArray, items, inputValue, lastOperation,
      effectPending, alertShown, net, beforeInsert>>

vars == <<appVars, call>>

NoOp == [type |-> "null"]
NoCall == [kind |-> "none"]
NoSnapshot == [stage |-> "none"]

\* Array(n).fill(0)
zeros(n) == [j \in 0..(n - 1) |-> 0]

\* A variant of increment that counts down.
incrementDown(bits, idx) ==
    IF idx \in DOMAIN bits THEN [bits EXCEPT ![idx] = @ - 1]
    ELSE (idx :> NaN) @@ bits

\* newBits[idx]++
increment(bits, idx) ==
    IF idx \in DOMAIN bits THEN [bits EXCEPT ![idx] = @ + 1]
    ELSE (idx :> NaN) @@ bits

\* A variant of incrementAll that raises each slot once, however often the
\* slot occurs in indices.
RECURSIVE incrementAllOnce(_, _)
incrementAllOnce(bits, indices) ==
    IF indices = <<>> THEN bits
    ELSE LET rest == Tail(indices)
         IN  IF \E p \in DOMAIN rest : rest[p] = Head(indices)
             THEN incrementAllOnce(bits, rest)
             ELSE incrementAllOnce(increment(bits, Head(indices)), rest)

\* indices.forEach(idx => { newBits[idx]++; })
RECURSIVE incrementAll(_, _)
incrementAll(bits, indices) ==
    IF indices = <<>> THEN bits
    ELSE incrementAll(increment(bits, Head(indices)), Tail(indices))

\* A variant of decrement that clears the counter.
decrementClear(bits, idx) ==
    IF idx \in DOMAIN bits /\ bits[idx] > 0 THEN [bits EXCEPT ![idx] = 0]
    ELSE bits

\* if (newBits[idx] > 0) newBits[idx]--
decrement(bits, idx) ==
    IF idx \in DOMAIN bits /\ bits[idx] > 0 THEN [bits EXCEPT ![idx] = @ - 1]
    ELSE bits

\* A variant of decrementAll that lowers each slot once, however often the
\* slot occurs in indices.
RECURSIVE decrementAllOnce(_, _)
decrementAllOnce(bits, indices) ==
    IF indices = <<>> THEN bits
    ELSE LET rest == Tail(indices)
         IN  IF \E p \in DOMAIN rest : rest[p] = Head(indices)
             THEN decrementAllOnce(bits, rest)
             ELSE decrementAllOnce(decrement(bits, Head(indices)), rest)

\* indices.forEach(idx => { if (newBits[idx] > 0) newBits[idx]--; })
RECURSIVE decrementAll(_, _)
decrementAll(bits, indices) ==
    IF indices = <<>> THEN bits
    ELSE decrementAll(decrement(bits, Head(indices)), Tail(indices))

\* A variant of missing that reports each slot once.
RECURSIVE missingOnce(_, _)
missingOnce(bits, indices) ==
    IF indices = <<>> THEN <<>>
    ELSE LET front == SubSeq(indices, 1, Len(indices) - 1)
             idx   == indices[Len(indices)]
         IN  IF /\ idx \in DOMAIN bits
                /\ bits[idx] = 0
                /\ \A p \in DOMAIN front : front[p] # idx
             THEN Append(missingOnce(bits, front), idx)
             ELSE missingOnce(bits, front)

\* indices.filter(idx => bitArray[idx] === 0)
missing(bits, indices) ==
    SelectSeq(indices, LAMBDA idx : idx \in DOMAIN bits /\ bits[idx] = 0)

\* items.includes(word)
includes(list, word) == \E j \in 1..Len(list) : list[j] = word

\* newItems.indexOf(word), counted from 1; 0 when absent.
indexOf(list, word) ==
    IF includes(list, word)
    THEN CHOOSE j \in 1..Len(list) :
            list[j] = word /\ \A h \in 1..(j - 1) : list[h] # word
    ELSE 0

\* A variant of spliceOne that removes every entry equal to the one at j.
spliceEvery(list, j) ==
    IF j > 0 THEN SelectSeq(list, LAMBDA entry : entry # list[j])
    ELSE list

\* if (itemIndex > -1) newItems.splice(itemIndex, 1)
spliceOne(list, j) ==
    IF j > 0 THEN SubSeq(list, 1, j - 1) \o SubSeq(list, j + 1, Len(list))
    ELSE list

Init ==
    /\ size = DEFAULT_SIZE
    /\ hashCount = DEFAULT_HASHES
    /\ bitArray = zeros(DEFAULT_SIZE)
    /\ items = <<>>
    /\ inputValue = <<>>
    /\ lastOperation = NoOp
    /\ effectPending = TRUE
    /\ alertShown = <<>>
    /\ net = [w \in Words |-> 0]
    /\ beforeInsert = NoSnapshot
    /\ call = NoCall

(***************************************************************************)
(* App.tsx: the effect and the handlers                                    *)
(*                                                                         *)
(* React runs the effect of a render caused by a user event before it      *)
(* handles the next event: while effectPending, no handler runs.           *)
(***************************************************************************)

\* useEffect(() => { ... }, [size, hashCount]): after the first render and
\* after every render in which size or hashCount changed.
resetEffect ==
    /\ effectPending
    /\ bitArray' = zeros(size)
    /\ items' = <<>>
    /\ lastOperation' = NoOp
    /\ effectPending' = FALSE
    /\ net' = [w \in Words |-> 0]
    /\ beforeInsert' = NoSnapshot
    /\ UNCHANGED <<size, hashCount, inputValue, alertShown, call>>

\* onChange of the Array Size range input.
setSize ==
    /\ ~effectPending
    /\ \E n \in Sizes :
        /\ n # size
        /\ size' = n
    /\ effectPending' = TRUE
    /\ alertShown' = <<>>
    /\ UNCHANGED <<hashCount, bitArray, items, inputValue, lastOperation, net,
                   beforeInsert, call>>

\* onChange of the Hash Functions range input.
setHashCount ==
    /\ ~effectPending
    /\ \E k \in HashCounts :
        /\ k # hashCount
        /\ hashCount' = k
    /\ effectPending' = TRUE
    /\ alertShown' = <<>>
    /\ UNCHANGED <<size, bitArray, items, inputValue, lastOperation, net,
                   beforeInsert, call>>

\* onClick of RESET SIMULATION.
resetSimulation ==
    /\ ~effectPending
    /\ bitArray' = zeros(size)
    /\ items' = <<>>
    /\ lastOperation' = NoOp
    /\ alertShown' = <<>>
    /\ net' = [w \in Words |-> 0]
    /\ beforeInsert' = NoSnapshot
    /\ UNCHANGED <<size, hashCount, inputValue, effectPending, call>>

\* onChange of the text box.
setInputValue ==
    /\ ~effectPending
    /\ \E str \in Inputs :
        /\ str # inputValue
        /\ inputValue' = str
    /\ alertShown' = <<>>
    /\ UNCHANGED <<size, hashCount, bitArray, items, lastOperation,
                   effectPending, net, beforeInsert, call>>

\* The history of the latest Insert once word has been deleted: kept if the
\* Insert was of word and nothing else happened to the filter since.
afterDelete(snapshot, word) ==
    IF snapshot.stage = "inserted" /\ snapshot.word = word
    THEN [snapshot EXCEPT !.stage = "deleted"]
    ELSE NoSnapshot

\* The OperationResult of an Insert or a Delete.
mutationRecord(type, word, indices) ==
    [type |-> type, word |-> word, indices |-> indices,
     isMatch |-> TRUE, isFalsePositive |-> FALSE]

\* A variant of checkRecord that flags every word that is not in items.
checkRecordAbsent(word) ==
    LET indices         == getHashIndices(word, size, hashCount)
        missingIndices  == missing(bitArray, indices)
        isMatch         == Len(missingIndices) = 0
        actuallyExists  == includes(items, word)
        isFalsePositive == ~actuallyExists
    IN  [type |-> "check", word |-> word, indices |-> indices,
         isMatch |-> isMatch, isFalsePositive |-> isFalsePositive,
         missingIndices |-> missingIndices]

\* The OperationResult handleCheck records for word.
checkRecord(word) ==
    LET indices         == getHashIndices(word, size, hashCount)
        missingIndices  == missing(bitArray, indices)
        isMatch         == Len(missingIndices) = 0
        actuallyExists  == includes(items, word)
        isFalsePositive == isMatch /\ ~actuallyExists
    IN  [type |-> "check", word |-> word, indices |-> indices,
         isMatch |-> isMatch, isFalsePositive |-> isFalsePositive,
         missingIndices |-> missingIndices]

\* A variant of handleInsert that inserts the text box's value as it is.
handleInsertUntrimmed ==
    /\ ~effectPending
    /\ alertShown' = <<>>
    /\ LET word == inputValue
       IN  IF trim(word) = <<>>
           THEN UNCHANGED <<size, hashCount, bitArray, items, inputValue,
                            lastOperation, effectPending, net,
                               beforeInsert, call>>
           ELSE LET indices == getHashIndices(word, size, hashCount)
                IN  /\ Len(items) < MaxItems
                    /\ bitArray' = incrementAll(bitArray, indices)
                    /\ items' = Append(items, word)
                    /\ lastOperation' = mutationRecord("insert", word, indices)
                    /\ inputValue' = <<>>
                    /\ net' = net
                    /\ beforeInsert' = [stage |-> "inserted", word |-> word,
                                         bitArray |-> bitArray, items |-> items]
                    /\ UNCHANGED <<size, hashCount, effectPending, call>>

\* handleInsert: the INSERT button (enabled while the text box is not empty)
\* or the Enter key in the text box.
handleInsert ==
    /\ ~effectPending
    /\ alertShown' = <<>>
    /\ LET word == trim(inputValue)
       IN  IF word = <<>>
           THEN UNCHANGED <<size, hashCount, bitArray, items, inputValue,
                            lastOperation, effectPending, net,
                               beforeInsert, call>>
           ELSE LET indices == getHashIndices(word, size, hashCount)
                IN  /\ Len(items) < MaxItems
                    /\ bitArray' = incrementAll(bitArray, indices)
                    /\ items' = Append(items, word)
                    /\ lastOperation' = mutationRecord("insert", word, indices)
                    /\ inputValue' = <<>>
                    /\ net' = [net EXCEPT ![word] = @ + 1]
                    /\ beforeInsert' = [stage |-> "inserted", word |-> word,
                                         bitArray |-> bitArray, items |-> items]
                    /\ UNCHANGED <<size, hashCount, effectPending, call>>

\* A variant of handleCheck that counts the probe in the slots it reads.
handleCheckCounting ==
    /\ ~effectPending
    /\ inputValue # <<>>
    /\ alertShown' = <<>>
    /\ LET word == trim(inputValue)
       IN  IF word = <<>>
           THEN UNCHANGED <<lastOperation, bitArray, beforeInsert>>
           ELSE /\ lastOperation' = checkRecord(word)
                /\ beforeInsert' = NoSnapshot
                /\ bitArray' =
                      incrementAll(bitArray, getHashIndices(word, size, hashCount))
    /\ UNCHANGED <<size, hashCount, items, inputValue, effectPending, net, call>>

\* handleCheck: the CHECK button (enabled while the text box is not empty).
handleCheck ==
    /\ ~effectPending
    /\ inputValue # <<>>
    /\ alertShown' = <<>>
    /\ LET word == trim(inputValue)
       IN  IF word = <<>>
           THEN UNCHANGED <<lastOperation, beforeInsert>>
           ELSE /\ lastOperation' = checkRecord(word)
                /\ beforeInsert' = NoSnapshot
    /\ UNCHANGED <<size, hashCount, bitArray, items, inputValue,
                   effectPending, net, call>>

\* A variant of handleDelete that decrements before it looks the word up.
handleDeleteDecrementFirst ==
    /\ ~effectPending
    /\ inputValue # <<>>
    /\ LET word == trim(inputValue)
       IN  IF word = <<>>
           THEN /\ alertShown' = <<>>
                /\ UNCHANGED <<size, hashCount, bitArray, items, inputValue,
                               lastOperation, effectPending, net,
                               beforeInsert, call>>
           ELSE LET indices == getHashIndices(word, size, hashCount)
                IN  /\ bitArray' = decrementAll(bitArray, indices)
                    /\ IF ~includes(items, word)
                       THEN /\ alertShown' = <<word>>
                            /\ UNCHANGED <<items, inputValue, lastOperation, net,
                                           beforeInsert>>
                       ELSE /\ alertShown' = <<>>
                            /\ items' = spliceOne(items, indexOf(items, word))
                            /\ lastOperation' =
                                  mutationRecord("delete", word, indices)
                            /\ inputValue' = <<>>
                            /\ net' = [net EXCEPT ![word] = @ - 1]
                    /\ beforeInsert' = afterDelete(beforeInsert, word)
                            /\ beforeInsert' = afterDelete(beforeInsert, word)
                    /\ UNCHANGED <<size, hashCount, effectPending, call>>

\* handleDelete: the DELETE button (enabled while the text box is not empty).
handleDelete ==
    /\ ~effectPending
    /\ inputValue # <<>>
    /\ LET word == trim(inputValue)
       IN  IF word = <<>>
           THEN /\ alertShown' = <<>>
                /\ UNCHANGED <<size, hashCount, bitArray, items, inputValue,
                               lastOperation, effectPending, net,
                               beforeInsert, call>>
           ELSE IF ~includes(items, word)
           THEN /\ alertShown' = <<word>>
                /\ UNCHANGED <<size, hashCount, bitArray, items, inputValue,
                               lastOperation, effectPending, net,
                               beforeInsert, call>>
           ELSE LET indices == getHashIndices(word, size, hashCount)
                IN  /\ alertShown' = <<>>
                    /\ bitArray' = decrementAll(bitArray, indices)
                    /\ items' = spliceOne(items, indexOf(items, word))
                    /\ lastOperation' = mutationRecord("delete", word, indices)
                    /\ inputValue' = <<>>
                    /\ net' = [net EXCEPT ![word] = @ - 1]
                    /\ beforeInsert' = afterDelete(beforeInsert, word)
                    /\ UNCHANGED <<size, hashCount, effectPending, call>>

(***************************************************************************)
(* bloomLogic called directly                                              *)
(*                                                                         *)
(* getHashIndices is exported: any caller may pass it any string, size and *)
(* k. A run makes one such call, beside an App that is not used, or *)
(* runs the App.                                                           *)
(***************************************************************************)

\* Bounds of the direct calls: the strings are at most MaxProbeLen code
\* units long and k is at most MaxProbeHashes.
MaxProbeLen == 2
MaxProbeHashes == 3

\* 'a', the euro sign and the largest code unit.
ProbeAlphabet == {97, 8364, 65535}

RECURSIVE StringsUpTo(_)
StringsUpTo(len) ==
    IF len = 0 THEN {<<>>}
    ELSE LET shorter == StringsUpTo(len - 1)
         IN  shorter \cup {Append(str, c) : str \in shorter, c \in ProbeAlphabet}

ProbeStrings == StringsUpTo(MaxProbeLen)
ProbeSizes == {0, 1, 2, 3, 7, 10, 20, 200, 1000}
ProbeCounts == 0..MaxProbeHashes

\* Loop counters reached only by calls with a very large k: 2^21 - 1, 2^21,
\* 2^22 + 1 and 2^24 - 1.
ProbeIterations == {2097151, 2097152, 4194305, 16777215}

AppUntouched ==
    /\ call = NoCall
    /\ size = DEFAULT_SIZE
    /\ hashCount = DEFAULT_HASHES
    /\ bitArray = zeros(DEFAULT_SIZE)
    /\ items = <<>>
    /\ inputValue = <<>>
    /\ lastOperation = NoOp
    /\ effectPending
    /\ alertShown = <<>>

\* A call getHashIndices(input, m, k) and the array it returns.
callGetHashIndices ==
    /\ AppUntouched
    /\ \E input \in ProbeStrings, m \in ProbeSizes, k \in ProbeCounts :
        call' = [kind |-> "getHashIndices", input |-> input, size |-> m,
                 k |-> k, result |-> getHashIndices(input, m, k)]
    /\ UNCHANGED appVars

\* A call getHashIndices(input, m, k) with k > i, followed up to the value its
\* loop pushes at counter i.
callIteration ==
    /\ AppUntouched
    /\ \E input \in ProbeStrings, m \in ProbeSizes, i \in ProbeIterations :
        call' = [kind |-> "iteration", input |-> input, size |-> m,
                 i |-> i, result |-> indexAt(input, m, i)]
    /\ UNCHANGED appVars

\* A step of the App: in a run without direct calls.
App(step) == call = NoCall /\ step

Next ==
    \/ App(resetEffect)
    \/ App(setSize)
    \/ App(setHashCount)
    \/ App(resetSimulation)
    \/ App(setInputValue)
    \/ App(handleInsert)
    \/ App(handleCheck)
    \/ App(handleDelete)
    \/ callGetHashIndices
    \/ callIteration

Spec == Init /\ [][Next]_vars

(***************************************************************************)
(* Properties                                                              *)
(***************************************************************************)

\* Whether an entry of list equals w, and how many do.
InList(list, w) == \E p \in DOMAIN list : list[p] = w
CountIn(list, w) == Cardinality({p \in DOMAIN list : list[p] = w})

\* The counter of slot j, if the array has one.
HasCount(j) == j \in DOMAIN bitArray /\ bitArray[j] \in Nat

\* Every index of the sequence has a counter above zero.
AllSet(indices) ==
    \A p \in DOMAIN indices : HasCount(indices[p]) /\ bitArray[indices[p]] > 0

\* C1: no false negatives. In every state in which Check can run, a word
\* inserted more often than it was successfully deleted since the last reset
\* is reported matched; and a recorded Check that did not match is of a word
\* with no net insertion, which is not in items.
NoFalseNegatives ==
    /\ ~effectPending =>
          \A w \in Words : net[w] > 0 => checkRecord(w).isMatch
    /\ (lastOperation.type = "check" /\ ~lastOperation.isMatch) =>
          /\ net[lastOperation.word] = 0
          /\ ~InList(items, lastOperation.word)

\* A Check matched a word that is in items while another word is too.
NoFalseNegativesWitness ==
    /\ lastOperation.type = "check"
    /\ lastOperation.isMatch
    /\ net[lastOperation.word] > 0
    /\ \E w \in Words : w # lastOperation.word /\ InList(items, w)

\* The index sequences of the entries p..Len(list) of list under the current
\* configuration, one after the other.
RECURSIVE IndicesOfAll(_, _)
IndicesOfAll(list, p) ==
    IF p > Len(list) THEN <<>>
    ELSE getHashIndices(list[p], size, hashCount) \o IndicesOfAll(list, p + 1)

\* C2: in every reachable state every slot 0..size-1 has a counter, which is
\* the number of occurrences of the slot in the index sequences of the
\* entries of items.
CountersMatchMembers ==
    LET all == IndicesOfAll(items, 1)
    IN  \A j \in 0..(size - 1) : HasCount(j) /\ bitArray[j] = CountIn(all, j)

\* The same in the states in which no reset is pending.
CountersMatchMembersSettled == ~effectPending => CountersMatchMembers

\* C3: every entry of bitArray is an integer >= 0.
CountersNonNegative == \A j \in DOMAIN bitArray : bitArray[j] \in Nat

\* A Delete of a word that was deleted before has just been refused, while
\* counters of another word are above zero.
CountersNonNegativeWitness ==
    /\ alertShown # <<>>
    /\ lastOperation.type = "delete"
    /\ lastOperation.word = alertShown[1]
    /\ \E j \in DOMAIN bitArray : bitArray[j] > 0

\* C4: a Delete of a word that is not in items raises the alert and changes
\* neither bitArray nor items nor lastOperation; and whenever the alert is
\* raised, it is for a word that is not in items and nothing else changed.
DeleteAbsentChangesNothing ==
    [][ /\ ( /\ App(handleDelete)
             /\ trim(inputValue) # <<>>
             /\ ~InList(items, trim(inputValue)) )
           => /\ alertShown' = <<trim(inputValue)>>
              /\ UNCHANGED <<bitArray, items, lastOperation, size, hashCount, net>>
        /\ alertShown' # <<>>
           => /\ alertShown' = <<trim(inputValue)>>
              /\ ~InList(items, trim(inputValue))
              /\ UNCHANGED <<bitArray, items, lastOperation, size, hashCount, net>>
      ]_vars

\* A Delete was refused on a filter that holds a word, whose Insert is still
\* the recorded operation.
DeleteAbsentWitness ==
    /\ alertShown # <<>>
    /\ lastOperation.type = "insert"
    /\ items # <<>>
    /\ ~InList(items, alertShown[1])

\* C5: a step that records a Check leaves bitArray, items, size and
\* hashCount as they were.
CheckIsPure ==
    [][ ( \/ App(handleCheck)
          \/ (lastOperation' # lastOperation /\ lastOperation'.type = "check") )
        => UNCHANGED <<bitArray, items, size, hashCount, net>> ]_vars

\* A Check is recorded on a filter that holds a word.
CheckIsPureWitness ==
    /\ lastOperation.type = "check"
    /\ items # <<>>
    /\ \E j \in DOMAIN bitArray : bitArray[j] > 0

\* C6: a Check is flagged a false positive exactly when it matched and the
\* word is not in items, which is when its inserts minus successful deletes
\* since the last reset are zero; Insert and Delete records are matched and
\* never flagged.
FalsePositiveFlag ==
    /\ ~effectPending =>
          \A w \in Words :
              LET r == checkRecord(w)
              IN  /\ r.isFalsePositive <=> (r.isMatch /\ ~InList(items, w))
                  /\ r.isFalsePositive <=> (r.isMatch /\ net[w] = 0)
    /\ lastOperation.type = "check" =>
          /\ lastOperation.isFalsePositive
                <=> (lastOperation.isMatch /\ ~InList(items, lastOperation.word))
          /\ lastOperation.isFalsePositive
                <=> (lastOperation.isMatch /\ net[lastOperation.word] = 0)
    /\ lastOperation.type \in {"insert", "delete"} =>
          lastOperation.isMatch /\ ~lastOperation.isFalsePositive

\* A Check of a word that is not in items matched: a false positive.
FalsePositiveWitness ==
    /\ lastOperation.type = "check"
    /\ lastOperation.isFalsePositive
    /\ net[lastOperation.word] = 0

\* The indices of the sequence whose counter is 0, in order.
RECURSIVE ZeroSlots(_)
ZeroSlots(indices) ==
    IF indices = <<>> THEN <<>>
    ELSE (IF HasCount(Head(indices)) /\ bitArray[Head(indices)] = 0
          THEN <<Head(indices)>> ELSE <<>>) \o ZeroSlots(Tail(indices))

\* C7: in every state in which Check can run, the record of Check(w) has the
\* indices of w, is matched exactly when all their counters are above zero,
\* lists as missing exactly the indices whose counter is 0, in order and with
\* repetitions, and is matched exactly when none is missing; with no entry in
\* items nothing matches and every index is missing. The recorded Check is
\* that record.
CheckReadsCounters ==
    /\ ~effectPending =>
          \A w \in Words :
              LET r       == checkRecord(w)
                  indices == getHashIndices(w, size, hashCount)
              IN  /\ r.indices = indices
                  /\ r.isMatch <=> AllSet(indices)
                  /\ r.missingIndices = ZeroSlots(indices)
                  /\ r.isMatch <=> (r.missingIndices = <<>>)
                  /\ items = <<>> => (~r.isMatch /\ r.missingIndices = indices)
    /\ (~effectPending /\ lastOperation.type = "check") =>
          lastOperation = checkRecord(lastOperation.word)

\* A recorded Check misses some of its indices and finds others set.
CheckReadsCountersWitness ==
    /\ lastOperation.type = "check"
    /\ lastOperation.missingIndices # <<>>
    /\ lastOperation.missingIndices # lastOperation.indices

\* C8: getHashIndices called with size >= 1 and k >= 1 returns k integers in
\* 0..size-1 (and so does each later iteration of its loop); in the App no
\* operation has an index outside 0..size-1, and bitArray never has a slot
\* outside those the configuration gave it.
IndicesInRange ==
    /\ (call.kind = "getHashIndices" /\ call.size >= 1 /\ call.k >= 1) =>
          /\ Len(call.result) = call.k
          /\ \A p \in DOMAIN call.result : call.result[p] \in 0..(call.size - 1)
    /\ (call.kind = "iteration" /\ call.size >= 1) =>
          call.result \in 0..(call.size - 1)
    /\ \E n \in Sizes : DOMAIN bitArray = 0..(n - 1)
    /\ ~effectPending =>
          /\ DOMAIN bitArray = 0..(size - 1)
          /\ \A w \in Words :
                LET indices == getHashIndices(w, size, hashCount)
                IN  /\ Len(indices) = hashCount
                    /\ \A p \in DOMAIN indices : indices[p] \in 0..(size - 1)
          /\ lastOperation # NoOp =>
                lastOperation.indices
                    = getHashIndices(lastOperation.word, size, hashCount)

\* A call with k > 1 on a non-empty string returned the last slot, size - 1.
IndicesInRangeWitness ==
    /\ call.kind = "getHashIndices"
    /\ call.k > 1
    /\ call.size > 2
    /\ call.input # <<>>
    /\ \E p \in DOMAIN call.result : call.result[p] = call.size - 1

(***************************************************************************)
(* The reference: double hashing in exact unsigned 32-bit arithmetic, on   *)
(* pairs <<high 16 bits, low 16 bits>>.                                    *)
(***************************************************************************)

Half == 2 ^ 16

\* (a + b) mod 2^32
RefAdd(a, b) ==
    LET lo == a[2] + b[2]
    IN  <<(a[1] + b[1] + lo \div Half) % Half, lo % Half>>

\* (a * d) mod 2^32, for 0 <= d <= 256.
RefScale(a, d) ==
    LET lo == a[2] * d
    IN  <<(a[1] * d + lo \div Half) % Half, lo % Half>>

\* (a * n) mod 2^32, by the base-256 digits of n.
RECURSIVE RefTimes(_, _)
RefTimes(a, n) ==
    IF n < 256 THEN RefScale(a, n)
    ELSE RefAdd(RefScale(a, n % 256), RefScale(RefTimes(a, n \div 256), 256))

RefXor(a, b) == <<XorN(a[1], b[1], 16), XorN(a[2], b[2], 16)>>

\* 2166136261 = 0x811C 9DC5, 0x811c9dc5 and 0x9e37 79b9.
RefOffsetBasis == <<33052, 40389>>
RefSeed1 == <<33052, 40389>>
RefSeed2 == <<40503, 31161>>

RECURSIVE RefFnvLoop(_, _)
RefFnvLoop(str, hash) ==
    IF str = <<>> THEN hash
    ELSE RefFnvLoop(Tail(str), RefTimes(RefXor(hash, <<0, Head(str)>>), FNV_PRIME))

RefFnv1a(str, seed) == RefFnvLoop(str, RefXor(RefOffsetBasis, seed))

\* (hi * 2^16 + lo) mod m, for 1 <= m <= 32768.
RefMod(combined, m) == ((combined[1] % m) * (Half % m) + combined[2]) % m

\* ((h1 + i * h2) mod 2^32) mod m
RefIndex(str, m, i) ==
    RefMod(RefAdd(RefFnv1a(str, RefSeed1), RefTimes(RefFnv1a(str, RefSeed2), i)), m)

\* The loop counters below 2^21, for which h1 + i * h2 is below 2^53.
ExactIterations == 2 ^ 21

\* C9 as claimed: every index getHashIndices computes, at every loop counter,
\* is the reference index.
HashIsReference ==
    /\ (call.kind = "getHashIndices" /\ call.size >= 1) =>
          \A p \in DOMAIN call.result :
              call.result[p] = RefIndex(call.input, call.size, p - 1)
    /\ (call.kind = "iteration" /\ call.size >= 1) =>
          call.result = RefIndex(call.input, call.size, call.i)

\* C9 at the loop counters below 2^21: there every index getHashIndices
\* computes is the reference index, and so is every index the App records.
HashIsReferenceBelow2p21 ==
    /\ (call.kind = "getHashIndices" /\ call.size >= 1) =>
          /\ Len(call.result) = call.k
          /\ \A p \in DOMAIN call.result :
                call.result[p] = RefIndex(call.input, call.size, p - 1)
    /\ (call.kind = "iteration" /\ call.size >= 1 /\ call.i < ExactIterations) =>
          call.result = RefIndex(call.input, call.size, call.i)
    /\ (lastOperation # NoOp /\ ~effectPending) =>
          \A p \in DOMAIN lastOperation.indices :
              lastOperation.indices[p] = RefIndex(lastOperation.word, size, p - 1)

\* A call at the last exact loop counter, 2^21 - 1, whose sum h1 + i * h2 is
\* above 2^52 and was reduced modulo 2^32.
HashIsReferenceWitness ==
    /\ call.kind = "iteration"
    /\ call.i = ExactIterations - 1
    /\ call.size > 1
    /\ LET h1 == fnv1a(call.input, SEED_H1)
           h2 == fnv1a(call.input, SEED_H2)
       IN  BitLen(AddBytes(h1, MulBytes(ToBytes(call.i, 4), h2, 8), 8)) = 53
    /\ call.result = RefIndex(call.input, call.size, call.i)

Raised(bits, indices) ==
    [j \in DOMAIN bits |-> bits[j] + CountIn(indices, j)]

\* C11 as claimed: every Insert appends the text box's value to items, counts
\* its indices and records an Insert of it; every Check records a Check of
\* the text box's value.
InsertCheckTotal ==
    [][ /\ App(handleInsert) =>
              /\ items' = Append(items, inputValue)
              /\ bitArray' =
                    Raised(bitArray, getHashIndices(inputValue, size, hashCount))
              /\ lastOperation' # NoOp
              /\ lastOperation'.type = "insert"
              /\ lastOperation'.word = inputValue
        /\ App(handleCheck) =>
              /\ lastOperation' # NoOp
              /\ lastOperation'.type = "check"
              /\ lastOperation'.word = inputValue
      ]_vars

\* C11, amended: Insert and Check work on the trimmed value of the text box.
\* If that is empty they change nothing of the filter; otherwise Insert
\* appends the trimmed word to items, raises each counter by the occurrences
\* of its slot in the word's indices and records an Insert of the word, and
\* Check records a Check of the word.
InsertCheckOnTrimmedInput ==
    [][ /\ ( trim(inputValue) = <<>> /\ (App(handleInsert) \/ App(handleCheck)) )
              => UNCHANGED <<bitArray, items, lastOperation, inputValue,
                             size, hashCount, net>>
        /\ ( \/ Len(items') > Len(items)
             \/ (trim(inputValue) # <<>> /\ App(handleInsert)) )
              => LET word    == trim(inputValue)
                     indices == getHashIndices(word, size, hashCount)
                 IN  /\ word # <<>>
                     /\ items' = Append(items, word)
                     /\ bitArray' = Raised(bitArray, indices)
                     /\ lastOperation' =
                           [type |-> "insert", word |-> word, indices |-> indices,
                            isMatch |-> TRUE, isFalsePositive |-> FALSE]
                     /\ UNCHANGED <<size, hashCount>>
        /\ ( \/ (lastOperation' # lastOperation /\ lastOperation'.type = "check")
             \/ (trim(inputValue) # <<>> /\ App(handleCheck)) )
              => LET word == trim(inputValue)
                 IN  /\ word # <<>>
                     /\ lastOperation'.type = "check"
                     /\ lastOperation'.word = word
                     /\ lastOperation'.indices
                           = getHashIndices(word, size, hashCount)
                     /\ UNCHANGED <<bitArray, items, inputValue, size, hashCount>>
      ]_vars

\* A Check was recorded of the trimmed word while the text box holds the
\* word with blanks around it, on a filter that holds an inserted word.
InsertCheckOnTrimmedInputWitness ==
    /\ lastOperation.type = "check"
    /\ inputValue # lastOperation.word
    /\ trim(inputValue) = lastOperation.word
    /\ items # <<>>


\* C12: in every reachable state bitArray has exactly the slots of the
\* current size, and a state reached by changing size or hashCount, before
\* anything else happens, has all counters zero, no items and no recorded
\* operation: nothing of the previous configuration is seen.
ConfigurationChangeDiscardsState ==
    /\ DOMAIN bitArray = 0..(size - 1)
    /\ effectPending =>
          /\ bitArray = zeros(size)
          /\ items = <<>>
          /\ lastOperation = NoOp

\* The same for the states in which a handler can run: the slots are those
\* of the current size, and the recorded operation and the counters are of
\* the current configuration.
ConfigurationChangeDiscardsStateSettled ==
    ~effectPending =>
        /\ DOMAIN bitArray = 0..(size - 1)
        /\ lastOperation # NoOp =>
              lastOperation.indices
                  = getHashIndices(lastOperation.word, size, hashCount)
        /\ CountersMatchMembers


\* No two positions of the sequence hold the same index.
PairwiseDistinct(indices) ==
    \A p, q \in DOMAIN indices : p # q => indices[p] # indices[q]

\* C13: with size in SIZE_MIN..SIZE_MAX and hashCount in HASH_MIN..HASH_MAX the
\* indices getHashIndices returns are pairwise distinct: those of every word
\* under the configuration of the App, those of the recorded operation, and
\* those of a direct call with such a size and k.
IndicesDistinct ==
    /\ ~effectPending =>
          \A w \in Words : PairwiseDistinct(getHashIndices(w, size, hashCount))
    /\ (~effectPending /\ lastOperation # NoOp) =>
          PairwiseDistinct(lastOperation.indices)
    /\ ( /\ call.kind = "getHashIndices"
         /\ call.size \in SIZE_MIN..SIZE_MAX
         /\ call.k \in HASH_MIN..HASH_MAX ) =>
          PairwiseDistinct(call.result)


\* list without its entry at position j.
Without(list, j) == SubSeq(list, 1, j - 1) \o SubSeq(list, j + 1, Len(list))

\* Every word is in items as often as it was inserted less successfully
\* deleted since the last reset, and items has no other entries.
ExactMultiplicity ==
    /\ \A w \in Words : CountIn(items, w) = net[w]
    /\ \A p \in DOMAIN items : items[p] \in Words

\* C14: items is a multiset with exact multiplicity, in every state before
\* and after every step; a step that records an Insert appends exactly the
\* inserted word and raises its count by one; a step that records a Delete
\* removes exactly one entry equal to the deleted word, leaves the other
\* entries in their order and lowers the word's count by one; and no other
\* step changes items but a reset, which empties it.
MembersExactMultiplicity ==
    [][ /\ ExactMultiplicity
        /\ ExactMultiplicity'
        /\ App(handleInsert) /\ trim(inputValue) # <<>> =>
              /\ items' = Append(items, trim(inputValue))
              /\ net' = [net EXCEPT ![trim(inputValue)] = @ + 1]
        /\ ( /\ App(handleDelete)
             /\ trim(inputValue) # <<>>
             /\ InList(items, trim(inputValue)) ) =>
              /\ \E j \in DOMAIN items :
                    /\ items[j] = trim(inputValue)
                    /\ items' = Without(items, j)
              /\ net' = [net EXCEPT ![trim(inputValue)] = @ - 1]
        /\ Len(items') = Len(items) + 1 =>
              /\ lastOperation'.type = "insert"
              /\ items' = Append(items, lastOperation'.word)
        /\ (Len(items') = Len(items) - 1 /\ lastOperation' # NoOp) =>
              /\ lastOperation'.type = "delete"
              /\ \E j \in DOMAIN items :
                    /\ items[j] = lastOperation'.word
                    /\ items' = Without(items, j)
        /\ items' # items =>
              \/ Len(items') = Len(items) + 1
              \/ Len(items') = Len(items) - 1
              \/ items' = <<>>
      ]_vars

\* One of two copies of a word has been deleted: the other is still in items.
MembersExactMultiplicityWitness ==
    /\ lastOperation.type = "delete"
    /\ InList(items, lastOperation.word)
    /\ net[lastOperation.word] = 1


\* Every index of the sequence has a counter above zero in bits.
AllSetIn(bits, indices) ==
    \A p \in DOMAIN indices :
        indices[p] \in DOMAIN bits /\ bits[indices[p]] > 0

\* C15: a step that is a successful Delete of a word lowers every counter by
\* exactly the occurrences of its slot in the word's indices, so leaves every
\* other counter unchanged; every such counter was at least that high, so the
\* test that keeps a counter from going below zero skips no decrement; and
\* every word still in items has all its counters above zero afterwards, so a
\* Check of it matches.
DeleteLowersExactly ==
    [][ ( \/ ( /\ App(handleDelete)
               /\ trim(inputValue) # <<>>
               /\ InList(items, trim(inputValue)) )
          \/ ( /\ lastOperation' # lastOperation
               /\ lastOperation'.type = "delete" ) )
        => LET word    == trim(inputValue)
               indices == getHashIndices(word, size, hashCount)
           IN  /\ lastOperation'.type = "delete"
               /\ lastOperation'.word = word
               /\ lastOperation'.indices = indices
               /\ DOMAIN bitArray' = DOMAIN bitArray
               /\ \A j \in DOMAIN bitArray :
                     /\ bitArray[j] >= CountIn(indices, j)
                     /\ bitArray'[j] = bitArray[j] - CountIn(indices, j)
               /\ \A w \in Words :
                     InList(items', w) =>
                         AllSetIn(bitArray', getHashIndices(w, size, hashCount))
      ]_vars

\* A word was deleted while another word that shares a slot with it is in
\* items: the shared slot is still above zero.
DeleteLowersExactlyWitness ==
    /\ lastOperation.type = "delete"
    /\ ~effectPending
    /\ \E w \in Words :
          /\ w # lastOperation.word
          /\ InList(items, w)
          /\ \E p \in DOMAIN lastOperation.indices :
                /\ InList(getHashIndices(w, size, hashCount), lastOperation.indices[p])
                /\ bitArray[lastOperation.indices[p]] > 0


\* C16: once a word has been inserted and nothing else was recorded, the word
\* is in items, so a Delete of it is not refused; and once that Delete has
\* followed, the Delete is the recorded operation, bitArray is what the
\* Insert found, items has the same entries as often as the Insert found them
\* and is the same list if the word was not in it, and if a counter of the
\* word was 0 when the Insert found it, a Check of the word does not match.
InsertDeleteRoundTrip ==
    /\ beforeInsert.stage = "inserted" =>
          /\ includes(items, beforeInsert.word)
          /\ lastOperation # NoOp
          /\ lastOperation.type = "insert"
          /\ lastOperation.word = beforeInsert.word
    /\ beforeInsert.stage = "deleted" =>
          LET word    == beforeInsert.word
              indices == lastOperation.indices
          IN  /\ lastOperation.type = "delete"
              /\ lastOperation.word = word
              /\ bitArray = beforeInsert.bitArray
              /\ Len(items) = Len(beforeInsert.items)
              /\ \A w \in Words :
                    CountIn(items, w) = CountIn(beforeInsert.items, w)
              /\ ~InList(beforeInsert.items, word) => items = beforeInsert.items
              /\ ( /\ ~effectPending
                   /\ \E p \in DOMAIN indices :
                         beforeInsert.bitArray[indices[p]] = 0 ) =>
                    /\ indices = getHashIndices(word, size, hashCount)
                    /\ ~checkRecord(word).isMatch
                    /\ checkRecord(word).missingIndices # <<>>

\* A word was inserted and deleted again on a filter that holds another word:
\* before the Insert one of its counters was 0 and another above zero.
InsertDeleteRoundTripWitness ==
    /\ beforeInsert.stage = "deleted"
    /\ ~effectPending
    /\ beforeInsert.items # <<>>
    /\ ~InList(beforeInsert.items, beforeInsert.word)
    /\ \E p, q \in DOMAIN lastOperation.indices :
          /\ beforeInsert.bitArray[lastOperation.indices[p]] = 0
          /\ beforeInsert.bitArray[lastOperation.indices[q]] > 0

====
